---- MODULE Spec2Model ----
(***************************************************************************)
(* A model of the disease-detection backend (src/server.js): the multipart *)
(* intake in front of POST /api/detect, the detect handler with its        *)
(* classifier, simulated analysis, artificial delay and log append, the    *)
(* detection_logs table, and the GET /api/history and GET /api/health      *)
(* routes.  Requests are handled on one event loop: each action below is   *)
(* one uninterrupted run of JavaScript or one step of the database.        *)
(***************************************************************************)
EXTENDS Integers, Sequences, FiniteSets, TLC

\* ---------------------------------------------------------------- bounds
\* Number of detect requests in flight over a behaviour.
MaxReq == 2
\* Most file parts one submission carries in its 'images' field.
MaxFiles == 3
\* Most rows the log holds in the log-store specification (SpecHistory).
MaxLog == 11
\* Most rows stamped with the same CURRENT_TIMESTAMP second.
MaxTie == 2

\* ------------------------------------------------------ program constants
\* upload.array('images', 2): the most files multer accepts for the field.
MaxCount == 2
\* req.files.length !== 2
RequiredFiles == 2
\* LIMIT 10 of the history query.
HistoryLimit == 10
\* minSize, maxSize of isValidCropImage; multer's limits.fileSize.
MinSize == 50 * 1024
MaxSize == 10 * 1024 * 1024
FileSizeLimit == 10 * 1024 * 1024
\* invalidChance, in hundredths.
InvalidChance == 15
\* sleep(isInvalid ? 7000 : 15000)
InvalidDelay == 7000
ValidDelay == 15000

Reqs == 1..MaxReq

\* ------------------------------------------------------------- catalogs
\* The five canned outcomes as the module is loaded: no processingSteps yet.
SimulatedResponsesInit ==
  << [status |-> "healthy", title |-> "Healthy",
      message |-> <<"No disease detected. All crop samples appear normal and healthy.">>,
      confidence |-> 95, color |-> "green"],
     [status |-> "warning", title |-> "Possible Disease Detected",
      message |-> <<"Early signs of fungal infection detected. Recommend treatment intervention.">>,
      confidence |-> 78, color |-> "yellow"],
     [status |-> "critical", title |-> "Critical Disease Identified",
      message |-> <<"Severe disease markers detected. Immediate treatment recommended.">>,
      confidence |-> 88, color |-> "red"],
     [status |-> "mild", title |-> "Minor Disease Indicators",
      message |-> <<"Mild disease patterns detected. Monitor for progression.">>,
      confidence |-> 72, color |-> "blue"],
     [status |-> "moderate", title |-> "Moderate Risk Detected",
      message |-> <<"Moderate disease indicators present. Recommend specialist consultation.">>,
      confidence |-> 81, color |-> "orange"] >>

invalidImageResponses ==
  << "Image quality too low for analysis",
     "Image appears to be synthetic or corrupted",
     "Unable to detect crop features in image",
     "Image dimensions incompatible with analysis model" >>

CannedStatuses == {"healthy", "warning", "critical", "mild", "moderate"}

\* Math.floor(Math.random() * n): any index of an n-element array (1-based here).
RandomIndex(n) == 1..n

\* --------------------------------------------------------------- objects
\* A JavaScript object is a function from its property names to values; a
\* template string is the sequence of its pieces.
HasProp(obj, k) == k \in DOMAIN obj

\* obj[k] = v
SetProp(obj, k, v) == (k :> v) @@ obj

\* (mutant) the rejected run reported with its second step completed too.
InvalidStepsAllCompleted ==
  << [step |-> "Image Recognition", completed |-> TRUE, duration |-> 3000],
     [step |-> "Crop Detection", completed |-> TRUE, duration |-> 0] >>

InvalidSteps ==
  << [step |-> "Image Recognition", completed |-> TRUE, duration |-> 3000],
     [step |-> "Crop Detection", completed |-> FALSE, duration |-> 0] >>

ValidSteps ==
  << [step |-> "Image Recognition", completed |-> TRUE, duration |-> 3000],
     [step |-> "Crop Detection", completed |-> TRUE, duration |-> 4000],
     [step |-> "Disease Analysis", completed |-> TRUE, duration |-> 8000] >>

\* The object literal of the invalid branch.
InvalidResult(image1Valid, phrase) ==
  [status |-> "invalid",
   title |-> "Invalid Image Detected",
   message |-> IF ~image1Valid THEN <<"Sample 1: ", phrase>>
                               ELSE <<"Sample 2: ", phrase>>,
   confidence |-> 0,
   color |-> "red",
   processingSteps |-> InvalidSteps]

\* ------------------------------------------------------------------ JSON
\* JSON text is modelled as a tree of tagged tokens; an object's text lists
\* its properties in insertion order.
KeyOrder == <<"status", "title", "message", "confidence", "color", "processingSteps">>

StepText(st) ==
  <<"object", << <<"step", <<"string", st.step>> >>,
                 <<"completed", <<"boolean", st.completed>> >>,
                 <<"duration", <<"number", st.duration>> >> >> >>

ValueText(k, v) ==
  CASE k \in {"status", "title", "color"} -> <<"string", v>>
    [] k = "message" -> <<"string", v>>
    [] k = "confidence" -> <<"number", v>>
    [] k = "processingSteps" -> <<"array", [i \in 1..Len(v) |-> StepText(v[i])]>>

\* JSON.stringify(result)
Stringify(obj) ==
  LET keys == SelectSeq(KeyOrder, LAMBDA k : HasProp(obj, k))
  IN  <<"object", [i \in 1..Len(keys) |-> <<keys[i], ValueText(keys[i], obj[keys[i]])>>]>>

ParseStep(t) ==
  LET ps == t[2]
      at(k) == (CHOOSE i \in 1..Len(ps) : ps[i][1] = k)
  IN  [step |-> ps[at("step")][2][2],
       completed |-> ps[at("completed")][2][2],
       duration |-> ps[at("duration")][2][2]]

ParseValue(t) ==
  IF t[1] = "array" THEN [i \in 1..Len(t[2]) |-> ParseStep(t[2][i])] ELSE t[2]

\* JSON.parse(row.result)
Parse(text) ==
  LET ps == text[2]
      keys == {ps[i][1] : i \in 1..Len(ps)}
  IN  [k \in keys |-> ParseValue(ps[CHOOSE i \in 1..Len(ps) : ps[i][1] = k][2])]

\* ------------------------------------------------------------------ state
VARIABLES
  req,                 \* per detect request: where it is and what it holds
  uploads,             \* the names of the files in the uploads directory
  log,                 \* the rows of detection_logs, in insertion order
  sqliteSeq,           \* the table's AUTOINCREMENT counter
  clock,               \* the wall clock, in seconds
  simulatedResponses,  \* the shared catalog objects (mutated by the handler)
  timers,              \* the pending sleep timers, in the order they were set
  reply                \* the last response sent on a GET route

vars == <<req, uploads, log, sqliteSeq, clock, simulatedResponses, timers,
          reply>>

NoResp == [route |-> "none", status |-> 0]

NewRequest ==
  [pc |-> "idle", nfiles |-> 0, files |-> <<>>, valid |-> <<>>,
   ref |-> 0, obj |-> [status |-> "none"], isInvalid |-> FALSE,
   resultText |-> <<>>, delay |-> 0, attempts |-> 0, err |-> FALSE,
   lastID |-> 0, resp |-> NoResp, stages |-> <<>>]

Init ==
  /\ req = [r \in Reqs |-> NewRequest]
  /\ uploads = {}
  /\ log = <<>>
  /\ sqliteSeq = 0
  /\ clock = 0
  /\ simulatedResponses = SimulatedResponsesInit
  /\ timers = <<>>
  /\ reply = NoResp

\* ------------------------------------------------------------- helpers
\* The storage name of a request's i-th file.  The code builds it from
\* Date.now(), a random number below 1E9 and the original name; it is modelled
\* as distinct for every stored file.
FileName(r, i) == <<r, i>>

\* The files a request has put into the uploads directory.
FilesOf(r) == {FileName(r, i) : i \in 1..MaxFiles}

\* The object a request's `result` variable refers to: its own literal, or a
\* shared catalog object as it is now.
Deref(r) ==
  IF req[r].ref = 0 THEN req[r].obj ELSE simulatedResponses[req[r].ref]

\* The rows a request's files appear in.
EntriesOf(r) ==
  {i \in 1..Len(log) : log[i].image1_name \in FilesOf(r) \/ log[i].image2_name \in FilesOf(r)}

\* (mutant) a sleep that spins: nothing else runs while a request waits.
EventLoopBusy == \A r \in Reqs : req[r].pc # "sleep"

\* sleep() only sets a timer and returns a promise: the event loop stays free
\* for the other requests while one waits.
EventLoopFree == TRUE

\* ------------------------------------------------------------ classifier
FileSizes == {10 * 1024, MinSize - 1, MinSize, 300 * 1024, MaxSize}
RandomDraws == {0, InvalidChance - 1, InvalidChance, 99}

\* isValidCropImage(file): statOk is whether statSync returned, fileSize what
\* it reported, draw is Math.random() in hundredths.
IsValidCropImage(statOk, fileSize, draw) ==
  IF ~statOk THEN FALSE
  ELSE IF fileSize < MinSize \/ fileSize > MaxSize THEN FALSE
  ELSE IF draw < InvalidChance THEN FALSE
  ELSE TRUE

\* What isValidCropImage may answer for a stored file, over what statSync
\* reports and what Math.random() draws.
ClassifierOutcomes ==
  {IsValidCropImage(statOk, fileSize, draw) :
     statOk \in BOOLEAN, fileSize \in FileSizes, draw \in RandomDraws}

\* (mutant) && in place of ||.
BothInvalid(image1Valid, image2Valid) == ~image1Valid /\ ~image2Valid

\* !image1Valid || !image2Valid
AnyInvalid(image1Valid, image2Valid) == ~image1Valid \/ ~image2Valid

\* (mutant) the two delays exchanged.
DelaySwapped(isInvalid) == IF isInvalid THEN ValidDelay ELSE InvalidDelay

\* isInvalid ? 7000 : 15000
DelayFor(isInvalid) == IF isInvalid THEN InvalidDelay ELSE ValidDelay

\* --------------------------------------------------------------- responses
FileCountError ==
  [status |-> 400,
   body |-> [success |-> FALSE,
             error |-> "Exactly 2 images are required for disease detection"]]

\* (mutant) the failed append answered as a success.
LogFailureAsSuccess ==
  [status |-> 200,
   body |-> [success |-> TRUE, error |-> "Failed to log detection"]]

LogFailureResponse ==
  [status |-> 500,
   body |-> [success |-> FALSE, error |-> "Failed to log detection"]]

HistoryFailureResponse ==
  [route |-> "history", status |-> 500,
   body |-> [success |-> FALSE, error |-> "Failed to fetch history"]]

\* An error multer passes to next(err) reaches Express's default error
\* handler: status 500 and an error page, no JSON body of the application.
UploadErrorResponse(message) ==
  [status |-> 500, body |-> [page |-> message]]

\* new Date().toISOString()
ISOString(t) == <<"iso", t>>

\* (mutant) the connection's last insert id, read when the callback runs.
ConnectionLastID(r) == sqliteSeq

\* this.lastID in the callback of db.run: the id of the row this statement
\* inserted, captured when the statement ran.
LastID(r) == req[r].lastID

SuccessResponse(r) ==
  [status |-> 200,
   body |-> [success |-> TRUE,
             data |-> [id |-> LastID(r),
                       images |-> << <<"/uploads/", req[r].files[1]>>,
                                     <<"/uploads/", req[r].files[2]>> >>,
                       result |-> Deref(r),
                       timestamp |-> ISOString(clock)]]]

\* ------------------------------------------------------------ the store
\* The id AUTOINCREMENT gives the next row.
NextRowId(seq) == seq + 1

\* (mutant) the two names in the wrong order.
InsertParamsSwapped(files, text) == <<files[2], files[1], text>>

\* The parameters of the INSERT: [image1.filename, image2.filename, resultText].
InsertParams(files, text) == <<files[1], files[2], text>>

\* One INSERT INTO detection_logs: the row gets the next id and the current
\* second as created_at (DEFAULT CURRENT_TIMESTAMP).
InsertRow(table, seq, now, params) ==
  Append(table, [id |-> NextRowId(seq),
                 image1_name |-> params[1],
                 image2_name |-> params[2],
                 result |-> params[3],
                 created_at |-> now])

\* At most MaxTie rows are stamped with one second.
RoomInSecond ==
  Cardinality({i \in 1..Len(log) : log[i].created_at = clock}) < MaxTie

\* (mutant) ORDER BY created_at ASC.
Oldest(table, S) ==
  {i \in S : \A j \in S : table[i].created_at <= table[j].created_at}

\* The row ORDER BY created_at DESC puts first among the rows S of a table.
Newest(table, S) ==
  {i \in S : \A j \in S : table[i].created_at >= table[j].created_at}

\* All the orders ORDER BY created_at DESC LIMIT limit may return the rows S
\* in, each order a sequence of positions in the table: rows with equal
\* created_at come in an order SQL leaves open.
RECURSIVE OrderByCreatedAtDesc(_, _, _)
OrderByCreatedAtDesc(table, S, limit) ==
  IF S = {} \/ limit = 0 THEN {<<>>}
  ELSE UNION {{<<i>> \o rest :
                  rest \in OrderByCreatedAtDesc(table, S \ {i}, limit - 1)} :
              i \in Newest(table, S)}

\* SELECT * FROM detection_logs ORDER BY created_at DESC LIMIT 10: the rows
\* in one of those orders.
SelectRecent(table, order) == [i \in 1..Len(order) |-> table[order[i]]]

\* rows.map(row => ({...row, result: JSON.parse(row.result)}))
MapRows(rows) ==
  [i \in 1..Len(rows) |-> [rows[i] EXCEPT !.result = Parse(@)]]

\* ---------------------------------------------------------------- actions
\* A POST /api/detect arrives carrying n file parts in its 'images' field.
\* (Requests are numbered in their order of arrival.)
Receive(r, n) ==
  /\ req[r].pc = "idle"
  /\ \A q \in 1..(r - 1) : req[q].pc # "idle"
  /\ req' = [req EXCEPT ![r] = [@ EXCEPT !.pc = "intake", !.nfiles = n,
                                         !.stages = <<"Receive">>]]
  /\ UNCHANGED <<uploads, log, sqliteSeq, clock, simulatedResponses, timers,
                 reply>>

\* multer fails the request: the files it has stored for the request are
\* removed again and the error goes to Express's error handler.
AbortUpload(r, message) ==
  /\ uploads' = uploads \ {req[r].files[i] : i \in 1..Len(req[r].files)}
  /\ req' = [req EXCEPT ![r] = [@ EXCEPT !.pc = "done", !.files = <<>>,
                                         !.resp = UploadErrorResponse(message),
                                         !.stages = Append(@, "Intake")]]

\* multer (upload.array('images', 2), diskStorage, fileFilter, limits) takes
\* the request's next file part.
StorePart(r) ==
  /\ EventLoopFree
  /\ req[r].pc = "intake"
  /\ Len(req[r].files) < req[r].nfiles
  /\ LET i == Len(req[r].files) + 1 IN
       \E isImage \in BOOLEAN, size \in {FileSizeLimit, FileSizeLimit + 1} :
         IF i > MaxCount THEN AbortUpload(r, "Unexpected field")
         ELSE IF ~isImage THEN AbortUpload(r, "Only image files are allowed!")
         ELSE IF size > FileSizeLimit THEN AbortUpload(r, "File too large")
         ELSE /\ uploads' = uploads \cup {FileName(r, i)}
              /\ req' = [req EXCEPT ![r].files = Append(@, FileName(r, i))]
  /\ UNCHANGED <<log, sqliteSeq, clock, simulatedResponses, timers,
                 reply>>

\* The synchronous part of the detect handler, entered once multer has taken
\* every part: the file-count check, the two classifications, the analysis,
\* JSON.stringify, and the call of sleep().
Handle(r) ==
  /\ EventLoopFree
  /\ req[r].pc = "intake"
  /\ Len(req[r].files) = req[r].nfiles
  /\ IF Len(req[r].files) # RequiredFiles
     THEN /\ req' = [req EXCEPT ![r] = [@ EXCEPT !.pc = "done",
                                                !.resp = FileCountError,
                                                !.stages = Append(@, "Intake")]]
          /\ UNCHANGED <<simulatedResponses, timers>>
     ELSE \E image1Valid \in ClassifierOutcomes, image2Valid \in ClassifierOutcomes :
          \E k \in IF AnyInvalid(image1Valid, image2Valid)
                   THEN RandomIndex(Len(invalidImageResponses)) ELSE {1},
             c \in IF AnyInvalid(image1Valid, image2Valid)
                   THEN {1} ELSE RandomIndex(Len(SimulatedResponsesInit)) :
          LET isInvalid == AnyInvalid(image1Valid, image2Valid)
              literal == InvalidResult(image1Valid, invalidImageResponses[k])
              canned == SetProp(simulatedResponses[c], "processingSteps", ValidSteps)
              result == IF isInvalid THEN literal ELSE canned
          IN  /\ simulatedResponses' =
                   IF isInvalid THEN simulatedResponses
                   ELSE [simulatedResponses EXCEPT ![c] = canned]
              /\ req' = [req EXCEPT ![r] =
                   [@ EXCEPT !.pc = "sleep",
                             !.valid = <<image1Valid, image2Valid>>,
                             !.ref = IF isInvalid THEN 0 ELSE c,
                             !.obj = IF isInvalid THEN literal ELSE @,
                             !.isInvalid = isInvalid,
                             !.resultText = Stringify(result),
                             !.delay = DelayFor(isInvalid),
                             !.stages = @ \o <<"Intake", "Classify", "Analyze", "Delay">>]]
              /\ timers' = Append(timers, r)
  /\ UNCHANGED <<uploads, log, sqliteSeq, clock, reply>>

\* A timer set earlier for no longer a delay fires first.
TimerDue(r) ==
  \E i \in 1..Len(timers) :
    /\ timers[i] = r
    /\ \A j \in 1..(i - 1) : req[timers[j]].delay > req[r].delay

\* The request's timer fires: the handler resumes after `await sleep(...)` and
\* calls db.run with the INSERT.
Wake(r) ==
  /\ req[r].pc = "sleep"
  /\ TimerDue(r)
  /\ timers' = SelectSeq(timers, LAMBDA q : q # r)
  /\ req' = [req EXCEPT ![r] = [@ EXCEPT !.pc = "persist",
                                         !.attempts = @ + 1,
                                         !.stages = Append(@, "Persist")]]
  /\ UNCHANGED <<uploads, log, sqliteSeq, clock, simulatedResponses,
                 reply>>

\* The database runs the request's INSERT: it appends the row, or it fails.
DbRun(r) ==
  /\ req[r].pc = "persist"
  /\ \/ /\ RoomInSecond
        /\ log' = InsertRow(log, sqliteSeq, clock,
                            InsertParams(req[r].files, req[r].resultText))
        /\ sqliteSeq' = NextRowId(sqliteSeq)
        /\ req' = [req EXCEPT ![r] = [@ EXCEPT !.pc = "callback",
                                               !.lastID = NextRowId(sqliteSeq)]]
     \/ /\ req' = [req EXCEPT ![r] = [@ EXCEPT !.pc = "callback", !.err = TRUE]]
        /\ UNCHANGED <<log, sqliteSeq>>
  /\ UNCHANGED <<uploads, clock, simulatedResponses, timers,
                 reply>>

\* The callback of db.run sends the response.
Callback(r) ==
  /\ EventLoopFree
  /\ req[r].pc = "callback"
  /\ req' = [req EXCEPT ![r] =
       IF req[r].err
       THEN [@ EXCEPT !.pc = "done", !.resp = LogFailureResponse]
       ELSE [@ EXCEPT !.pc = "done", !.resp = SuccessResponse(r),
                      !.stages = Append(@, "Respond")]]
  /\ UNCHANGED <<uploads, log, sqliteSeq, clock, simulatedResponses, timers,
                 reply>>

\* GET /api/history: the query and its callback.
History ==
  /\ EventLoopFree
  /\ \/ \E order \in OrderByCreatedAtDesc(log, 1..Len(log), HistoryLimit) :
          reply' = [route |-> "history", status |-> 200,
                    body |-> [success |-> TRUE,
                              data |-> MapRows(SelectRecent(log, order))]]
     \/ reply' = HistoryFailureResponse
  /\ UNCHANGED <<req, uploads, log, sqliteSeq, clock, simulatedResponses, timers>>

\* GET /api/health
Health ==
  /\ EventLoopFree
  /\ reply' = [route |-> "health", status |-> 200,
               body |-> [status |-> "ok", timestamp |-> ISOString(clock)]]
  /\ UNCHANGED <<req, uploads, log, sqliteSeq, clock, simulatedResponses, timers>>

\* The wall clock reaches the next second.  Seconds in which no row is
\* stamped are not told apart.
Tick ==
  /\ \E i \in 1..Len(log) : log[i].created_at = clock
  /\ clock' = clock + 1
  /\ UNCHANGED <<req, uploads, log, sqliteSeq, simulatedResponses, timers,
                 reply>>

Next ==
  \/ \E r \in Reqs, n \in 0..MaxFiles : Receive(r, n)
  \/ \E r \in Reqs : StorePart(r)
  \/ \E r \in Reqs : Handle(r)
  \/ \E r \in Reqs : Wake(r)
  \/ \E r \in Reqs : DbRun(r)
  \/ \E r \in Reqs : Callback(r)
  \/ History
  \/ Health
  \/ Tick

Spec == Init /\ [][Next]_vars

\* The scheduling the platform guarantees: a due timer fires, a queued
\* statement is run, a pending callback is called.
FairSpec ==
  /\ Spec
  /\ \A r \in Reqs : WF_vars(Wake(r)) /\ WF_vars(DbRun(r)) /\ WF_vars(Callback(r))

\* ------------------------------------------------- the log store on its own
\* An append by some detect request, whichever it is.
SampleParams ==
  InsertParams(<<FileName(0, 1), FileName(0, 2)>>,
               Stringify(InvalidResult(FALSE, invalidImageResponses[1])))

StoreAppend ==
  /\ Len(log) < MaxLog
  /\ RoomInSecond
  /\ log' = InsertRow(log, sqliteSeq, clock, SampleParams)
  /\ sqliteSeq' = NextRowId(sqliteSeq)
  /\ UNCHANGED <<req, uploads, clock, simulatedResponses, timers, reply>>

NextHistory ==
  \/ StoreAppend
  \/ History
  \/ Tick

\* The table under any sequence of appends, clock ticks and history reads.
SpecHistory == Init /\ [][NextHistory]_vars

\* ================================================================ claims
Done(r) == req[r].pc = "done"

Reached(r, stage) ==
  \E i \in 1..Len(req[r].stages) : req[r].stages[i] = stage

\* The request got past the file-count check into classification.
PassedIntake(r) == Reached(r, "Classify")

FullStages ==
  <<"Receive", "Intake", "Classify", "Analyze", "Delay", "Persist", "Respond">>

IsPrefix(s, t) == Len(s) <= Len(t) /\ s = SubSeq(t, 1, Len(s))

Min(a, b) == IF a <= b THEN a ELSE b

\* The invariant of a DetectionResult.
WellShaped(o) ==
  /\ HasProp(o, "processingSteps")
  /\ o.status \in CannedStatuses \cup {"invalid"}
  /\ IF o.status = "invalid"
     THEN /\ o.confidence = 0
          /\ Len(o.processingSteps) = 2
          /\ o.processingSteps[1].completed
          /\ ~o.processingSteps[2].completed
     ELSE /\ Len(o.processingSteps) = 3
          /\ \A i \in 1..3 : o.processingSteps[i].completed

\* The request's upload was not refused for a part's type or size.
PartsAccepted(r) ==
  req[r].resp \notin {UploadErrorResponse("Only image files are allowed!"),
                      UploadErrorResponse("File too large")}

\* C1 (as stated, over submissions of acceptable image parts): a finished
\* detect request that carried a number of file parts other than 2 was
\* answered with the 400 file-count error, and no log row was appended for it.
C1_FileCountError ==
  \A r \in Reqs :
    (Done(r) /\ req[r].nfiles # RequiredFiles /\ PartsAccepted(r))
      => (req[r].resp = FileCountError /\ EntriesOf(r) = {})

\* C2 (as stated): a finished detect request that carried a number of file
\* parts other than 2 has left none of its files in the uploads store.
C2_NoPartialStore ==
  \A r \in Reqs :
    (Done(r) /\ req[r].nfiles # RequiredFiles) => FilesOf(r) \cap uploads = {}

\* C3 (as stated): a finished two-file request that passed intake has exactly
\* one log row, holding its two storage names in order.
C3_ExactlyOneEntry ==
  \A r \in Reqs :
    (Done(r) /\ PassedIntake(r))
      => /\ Cardinality(EntriesOf(r)) = 1
         /\ \A i \in EntriesOf(r) :
              /\ log[i].image1_name = FileName(r, 1)
              /\ log[i].image2_name = FileName(r, 2)

\* C3 (amended): a two-file request that passed intake never has more than
\* one log row; once its append has run it has exactly one if the append
\* succeeded and none if it failed; the row holds the storage names of the
\* request's first and second file in that order.
C3_OneEntryUnlessAppendFails ==
  \A r \in Reqs :
    PassedIntake(r)
      => /\ req[r].files = <<FileName(r, 1), FileName(r, 2)>>
         /\ Cardinality(EntriesOf(r)) <= 1
         /\ \A i \in EntriesOf(r) :
              /\ log[i].image1_name = req[r].files[1]
              /\ log[i].image2_name = req[r].files[2]
         /\ req[r].pc \in {"callback", "done"}
              => Cardinality(EntriesOf(r)) = (IF req[r].err THEN 0 ELSE 1)

\* Two concurrent requests, one invalid and one canned, each with its row; the
\* later request's row was appended first.
C3_Witness ==
  /\ MaxReq >= 2
  /\ Done(1) /\ Done(2)
  /\ req[1].resp.status = 200 /\ req[2].resp.status = 200
  /\ ~req[1].isInvalid /\ req[2].isInvalid
  /\ Len(log) = 2
  /\ log[1].image1_name = FileName(2, 1)
  /\ log[2].image1_name = FileName(1, 1)

\* What a history read of `table` may return as `rows`.
HistoryData(rows, table) ==
  LET returned == {rows[i].id : i \in 1..Len(rows)}
      oldest == rows[Len(rows)].created_at
  IN  /\ Len(rows) <= HistoryLimit
      /\ Len(rows) = Min(Len(table), HistoryLimit)
      /\ Cardinality(returned) = Len(rows)
      /\ \A i \in 1..Len(rows) :
           \E j \in 1..Len(table) :
             /\ table[j].id = rows[i].id
             /\ rows[i] = [table[j] EXCEPT !.result = Parse(@)]
      /\ \A i \in 1..(Len(rows) - 1) : rows[i].created_at >= rows[i + 1].created_at
      /\ \A j \in 1..Len(table) :
           table[j].id \notin returned => table[j].created_at <= oldest

C5_ResultShape ==
  /\ \A r \in Reqs :
       /\ PassedIntake(r) => WellShaped(Parse(req[r].resultText))
       /\ req[r].resp.status = 200 => WellShaped(req[r].resp.body.data.result)
  /\ \A i \in 1..Len(log) : WellShaped(Parse(log[i].result))

\* Two requests drew the same canned outcome; one has answered while the
\* other is still in flight.
C5_Witness ==
  \E r, q \in Reqs :
    /\ r # q
    /\ req[r].ref # 0 /\ req[r].ref = req[q].ref
    /\ req[r].resp.status = 200
    /\ req[q].pc \in {"sleep", "persist", "callback"}

\* C6: the status is 'invalid' exactly when a file was classified invalid and
\* otherwise a canned status; an invalid result's message names Sample 1 when
\* the first file is invalid and Sample 2 only when the first is valid and
\* the second is not.
C6_StatusAndSample ==
  \A r \in Reqs :
    PassedIntake(r) =>
      LET o == Parse(req[r].resultText)
          v1 == req[r].valid[1]
          v2 == req[r].valid[2]
      IN  /\ (o.status = "invalid") <=> (~v1 \/ ~v2)
          /\ o.status # "invalid" => o.status \in CannedStatuses
          /\ o.status = "invalid" =>
               /\ ~v1 => o.message[1] = "Sample 1: "
               /\ (o.message[1] = "Sample 2: ") <=> (v1 /\ ~v2)
               /\ o.message[1] \in {"Sample 1: ", "Sample 2: "}
               /\ \E k \in 1..Len(invalidImageResponses) :
                    o.message[2] = invalidImageResponses[k]

\* Both files invalid: the message names Sample 1.
C6_Witness ==
  \E r \in Reqs :
    /\ PassedIntake(r)
    /\ req[r].valid = <<FALSE, FALSE>>
    /\ Parse(req[r].resultText).message[1] = "Sample 1: "

\* C7: when a request's append fails, the request is answered 500 with
\* success false, has no log row, keeps its two files in the uploads store,
\* and has called the append once; no request calls it more than once.
C7_AppendFailure ==
  \A r \in Reqs :
    /\ req[r].attempts <= 1
    /\ req[r].err =>
         /\ Done(r) => (req[r].resp.status = 500 /\ ~req[r].resp.body.success)
         /\ EntriesOf(r) = {}
         /\ {req[r].files[1], req[r].files[2]} \subseteq uploads
         /\ req[r].attempts = 1

C7_Witness ==
  \E r \in Reqs : req[r].err /\ Done(r) /\ req[r].resp = LogFailureResponse

\* C8: the stages come in the fixed order; a row exists only once the delay
\* has elapsed; a success response only once the row exists; the delay is
\* 7000 for an invalid result and 15000 otherwise; a request ended at Intake
\* or at Persist reaches no later stage.
C8_StageOrder ==
  \A r \in Reqs :
    /\ IsPrefix(req[r].stages, FullStages)
    /\ EntriesOf(r) # {} =>
         /\ Reached(r, "Persist")
         /\ \A i \in 1..Len(timers) : timers[i] # r
    /\ req[r].resp.status = 200 =>
         /\ EntriesOf(r) # {}
         /\ req[r].stages = FullStages
    /\ Reached(r, "Delay") =>
         req[r].delay = (IF Parse(req[r].resultText).status = "invalid"
                         THEN 7000 ELSE 15000)
    /\ (Done(r) /\ ~PassedIntake(r)) =>
         /\ req[r].stages = <<"Receive", "Intake">>
         /\ req[r].resp.status \in {400, 500}
         /\ req[r].attempts = 0
         /\ EntriesOf(r) = {}
    /\ (Done(r) /\ req[r].err) =>
         /\ req[r].stages = SubSeq(FullStages, 1, 6)
         /\ req[r].resp.status = 500

\* One request answered after the short delay and one after the long one.
C8_Witness ==
  \E r, q \in Reqs :
    /\ req[r].resp.status = 200 /\ req[r].delay = InvalidDelay
    /\ req[q].resp.status = 200 /\ req[q].delay = ValidDelay

\* While a request waits in its delay, every other request can take its next
\* step and the GET routes can be served.
NonBlocking ==
  \A r \in Reqs :
    req[r].pc = "sleep" =>
      /\ ENABLED History
      /\ ENABLED Health
      /\ \A q \in Reqs \ {r} :
           /\ req[q].pc = "intake" => ENABLED (StorePart(q) \/ Handle(q))
           /\ req[q].pc = "persist" => ENABLED DbRun(q)
           /\ req[q].pc = "callback" => ENABLED Callback(q)

\* C9: a request waiting in its delay blocks no step of any other request
\* (detect, history, health), and every request that has passed intake is
\* answered in the end.
C9_DelayDoesNotBlock ==
  /\ []NonBlocking
  /\ \A r \in Reqs : PassedIntake(r) ~> Done(r)

\* The request that arrived later, with the shorter delay, has been answered
\* while the earlier one still waits.
C9_Witness ==
  \E r, q \in Reqs :
    /\ r < q
    /\ req[r].pc = "sleep" /\ req[r].delay = ValidDelay
    /\ req[q].resp.status = 200 /\ req[q].delay = InvalidDelay

IdsIncreasing ==
  \A i, j \in 1..Len(log) : i < j => log[i].id < log[j].id

ResponseIdIsOwnRow ==
  \A r \in Reqs :
    req[r].resp.status = 200 =>
      \E i \in EntriesOf(r) :
        /\ log[i].id = req[r].resp.body.data.id
        /\ log[i].result = req[r].resultText

\* C10: ids are unique and strictly increasing in insertion order, a success
\* response carries the id of the row its request appended, and every step
\* leaves the rows already in the table as they are (the table only grows).
C10_LogStore ==
  /\ [](IdsIncreasing /\ ResponseIdIsOwnRow)
  /\ [][Len(log') >= Len(log) /\ SubSeq(log', 1, Len(log)) = log]_vars

\* Both requests answered, the later one's row appended first, a history
\* read taken in between.
C10_Witness ==
  /\ MaxReq >= 2
  /\ req[1].resp.status = 200 /\ req[2].resp.status = 200
  /\ Len(log) = 2
  /\ log[1].image1_name = FileName(2, 1)
  /\ req[2].resp.body.data.id = 1 /\ req[1].resp.body.data.id = 2
  /\ reply.route = "history" /\ reply.status = 200
  /\ Len(reply.body.data) = 1

====
